---- MODULE Spec2Model ----
(***************************************************************************)
(* Model of the audio-analysis pipeline of the music visualizer (App in    *)
(* src/src/lib.rs): segmentation, windowing, spectral magnitudes, bucket   *)
(* mapping, percentile scaling and temporal smoothing, together with the   *)
(* exported calls that drive them.                                         *)
(*                                                                         *)
(* Numbers.  f32 values are fixed-point integers counted in units of       *)
(* 1 / Unit (Unit stands for 1.0, Epsilon for the 0.001 guard of the       *)
(* scaler); every arithmetic result is rounded to the nearest unit, as f32 *)
(* rounds to the nearest representable value.  Frequencies are counted in  *)
(* milli-Hz.  The f64 computation of target_frames is modelled bit-exactly *)
(* (53-bit significand, round to nearest even) because its rounding        *)
(* decides the hop size.                                                   *)
(***************************************************************************)
EXTENDS Integers, Sequences, FiniteSets, TLC

VARIABLES
    audio_frames,     \* App.audio_frames: Vec<Vec<f32>>
    fft_results,      \* App.fft_results: Vec<Vec<f32>>
    frequency_bars,   \* App.frequency_bars: Vec<Vec<f32>>
    previous_bars,    \* App.previous_bars: Vec<f32>
    audio_processed,  \* App.audio_processed: bool
    bin_size,         \* App.bin_size: usize
    renderer,         \* App.renderer: frame_count and the bars last handed over
    pc,               \* position of the process_audio_file call in progress
    file,             \* the file of the load in progress / of the last load
    ret,              \* the value the last completed call returned
    input,            \* argument of a private function applied on its own
    output            \* what that function computed

vars == <<audio_frames, fft_results, frequency_bars, previous_bars,
          audio_processed, bin_size, renderer, pc, file, ret, input,
          output>>

(***************************************************************************)
(* Program constants                                                       *)
(***************************************************************************)
Unit == 10000
MilliHz == 1000
FRAME_SIZE == 1024
TARGET_FPS == 120
SAMPLE_RATE == 44100
nyquist_bin == 512
I16_MAX == 32767
DefaultBinSize == 64

(***************************************************************************)
(* Integer helpers                                                         *)
(***************************************************************************)
Abs(x) == IF x < 0 THEN -x ELSE x

Min(a, b) == IF a < b THEN a ELSE b

Max(a, b) == IF a > b THEN a ELSE b

\* a / b rounded to the nearest integer (ties away from zero), b > 0
RoundDiv(a, b) == IF a >= 0 THEN (2 * a + b) \div (2 * b)
                  ELSE -((2 * (-a) + b) \div (2 * b))

RECURSIVE Pow2(_)
Pow2(n) == IF n = 0 THEN 1 ELSE 2 * Pow2(n - 1)

RECURSIVE SqrtFloor(_, _, _)
\* largest r in lo..hi with r * r <= x, by bisection (lo * lo <= x)
SqrtFloor(x, lo, hi) ==
    IF lo >= hi THEN lo
    ELSE LET mid == (lo + hi + 1) \div 2
         IN  IF mid * mid <= x THEN SqrtFloor(x, mid, hi)
             ELSE SqrtFloor(x, lo, mid - 1)

Zeros(n) == [i \in 1..n |-> 0]

(***************************************************************************)
(* f64 arithmetic of process_audio_frames (lib.rs:166-167).                *)
(* A positive f64 is [hi, lo, e]: significand hi * 2^26 + lo in            *)
(* [2^52, 2^53), value significand * 2^e.  Zero is [hi |-> 0].             *)
(***************************************************************************)
W == Pow2(26)

F64Zero == [hi |-> 0, lo |-> 0, e |-> 0]

\* significand * 2 + bit
ShiftIn(m, bit) ==
    LET l == 2 * m.lo + bit
    IN  [hi |-> 2 * m.hi + l \div W, lo |-> l % W, e |-> m.e - 1]

\* significand + 1, renormalised when it reaches 2^53
Increment(m) ==
    LET l  == m.lo + 1
        h  == m.hi + l \div W
    IN  IF h = Pow2(27) THEN [hi |-> Pow2(26), lo |-> 0, e |-> m.e + 1]
        ELSE [hi |-> h, lo |-> l % W, e |-> m.e]

RECURSIVE DivBits(_, _, _)
\* long division: m holds the quotient bits produced so far, r the
\* remainder (r < d); stops once m has 53 significant bits and rounds to
\* nearest, ties to even, on the next bit and the remaining remainder
DivBits(m, r, d) ==
    IF m.hi >= Pow2(26)
    THEN LET guard  == IF 2 * r >= d THEN 1 ELSE 0
             rest   == 2 * r - guard * d
             roundUp == guard = 1 /\ (rest # 0 \/ m.lo % 2 = 1)
         IN  IF roundUp THEN Increment(m) ELSE m
    ELSE LET bit == IF 2 * r >= d THEN 1 ELSE 0
         IN  DivBits(ShiftIn(m, bit), 2 * r - bit * d, d)

\* fl(n / d) for integers 0 <= n, 0 < d < 2^26, n / d < 2^26
F64Div(n, d) ==
    IF n = 0 THEN F64Zero
    ELSE DivBits([hi |-> 0, lo |-> n \div d, e |-> 0], n % d, d)

\* fl(x * 120): 120 = 15 * 2^3; the 57-bit product x * 15 is rounded back
\* to 53 bits (nearest, ties to even)
F64Mul120(x) ==
    IF x.hi = 0 THEN F64Zero
    ELSE LET l15  == x.lo * 15
             h15  == x.hi * 15 + l15 \div W
             lo15 == l15 % W
             s    == IF h15 >= Pow2(30) THEN 4 ELSE 3
             p    == Pow2(s)
             low  == lo15 % p
             m    == [hi |-> h15 \div p,
                      lo |-> lo15 \div p + (h15 % p) * (W \div p),
                      e  |-> x.e + 3 + s]
             roundUp == low > p \div 2 \/ (low = p \div 2 /\ m.lo % 2 = 1)
         IN  IF roundUp THEN Increment(m) ELSE m

\* `x as usize` for 0 <= x < 2^27: truncation toward zero
F64ToUsize(x) ==
    IF x.hi = 0 THEN 0
    ELSE IF -x.e >= 53 THEN 0
    ELSE x.hi \div Pow2(-x.e - 26)

(***************************************************************************)
(* Input files.  A file is what hound::WavReader sees: whether the header  *)
(* parses, the declared format, and the interleaved samples, given by the  *)
(* signal carried on each channel.                                         *)
(***************************************************************************)
\* the sample of signal `kind` at time index t (t >= 0), an i16
SampleAt(kind, t) ==
    CASE kind = "silence" -> 0
      [] kind = "dc"      -> 12000
      [] kind = "saw"     -> ((t * 2731) % 65536) - 32768
      [] kind = "tone"    -> IF (t \div 22) % 2 = 0 THEN 20000 ELSE -20000

\* reader.into_samples().collect(): the interleaved samples, channel c of
\* time index t at position t * channels + c (0-based)
Samples(f) ==
    [i \in 1..f.len |->
        SampleAt(f.chan[((i - 1) % f.channels) + 1], (i - 1) \div f.channels)]

\* WavReader::new succeeds
HeaderOk(f) == f.header_ok

\* every sample reads as i16 (hound refuses samples wider than 16 bits)
SamplesOk(f) == f.bits <= 16

\* a downmix that keeps the right channel (positions 1, 3, 5, ...)
mono_samples_right(channels, sample_vec) ==
    IF channels = 2
    THEN [j \in 1..(Len(sample_vec) \div 2) |-> sample_vec[2 * j]]
    ELSE sample_vec

\* lib.rs:124-128: left channel only when there are exactly two channels
\* (iter().step_by(2) keeps positions 0, 2, 4, ...)
mono_samples(channels, sample_vec) ==
    IF channels = 2
    THEN [j \in 1..((Len(sample_vec) + 1) \div 2) |-> sample_vec[2 * j - 1]]
    ELSE sample_vec

(***************************************************************************)
(* FrameSegmenter                                                          *)
(***************************************************************************)
\* 0.5 * (1 - cos(2 pi n / (size - 1))) = sin^2(pi n / (size - 1)), the
\* sine taken by Bhaskara's rational approximation 4y / (5 - y),
\* y = 4 x (1 - x), x = n / (size - 1)
HannValue(n, size) ==
    LET S    == size - 1
        a    == 4 * n * (S - n)
        y    == RoundDiv((a \div S) * Unit + RoundDiv((a % S) * Unit, S), S)
        sinM == RoundDiv(4 * y * Unit, 5 * Unit - y)
    IN  RoundDiv(sinM * sinM, Unit)

generate_hann_window(size) == [k \in 1..size |-> HannValue(k - 1, size)]

apply_hann_window(frame, window) ==
    [k \in 1..Min(Len(frame), Len(window)) |->
        RoundDiv(RoundDiv(frame[k] * Unit, I16_MAX) * window[k], Unit)]

\* (duration_seconds * TARGET_FPS) as usize
target_frames(len) == F64ToUsize(F64Mul120(F64Div(len, SAMPLE_RATE)))

hop_size(len) ==
    IF target_frames(len) > 0 THEN len \div target_frames(len) ELSE FRAME_SIZE

frame_count(len) ==
    IF len >= FRAME_SIZE THEN (len - FRAME_SIZE) \div hop_size(len) + 1 ELSE 0

\* the number of frames the loop pushes: one for every frame_idx below
\* frame_count whose span fits in the buffer
frames_pushed(len) ==
    LET hop   == hop_size(len)
        count == frame_count(len)
    IN  Cardinality({i \in 0..(count - 1) : i * hop + FRAME_SIZE <= len})

\* the new audio_frames: cleared, then the windowed frames pushed in order
process_audio_frames(samples) ==
    LET len   == Len(samples)
        hop   == hop_size(len)
        hann  == generate_hann_window(FRAME_SIZE)
    IN  [j \in 1..frames_pushed(len) |->
            apply_hann_window(
                SubSeq(samples, (j - 1) * hop + 1, (j - 1) * hop + FRAME_SIZE),
                hann)]

(***************************************************************************)
(* SpectralAnalyzer.  phastft::fft_32 is an external transform; what the   *)
(* model keeps of sqrt(re^2 + im^2) is the length of the result (one       *)
(* magnitude per input sample), its sign, that a zero frame has a zero     *)
(* spectrum, and the mirror symmetry |X[k]| = |X[N-k]| of a real input.    *)
(***************************************************************************)
\* a transform with a noise floor: no magnitude below 0.01
Magnitudes_floor(frame) ==
    LET N == Len(frame)
        mirror(k) == IF k = 1 THEN 1 ELSE N - k + 2
    IN  [k \in 1..N |-> Max(Abs(frame[k] + frame[mirror(k)]), Unit \div 100)]

Magnitudes(frame) ==
    LET N == Len(frame)
        mirror(k) == IF k = 1 THEN 1 ELSE N - k + 2
    IN  [k \in 1..N |-> Abs(frame[k] + frame[mirror(k)])]

process_fft(frames) == [f \in 1..Len(frames) |-> Magnitudes(frames[f])]

(***************************************************************************)
(* FrequencyBucketMapper: boundary tables, in milli-Hz.  The tables hold   *)
(* the f32 values of the powf / exp expressions of the source.             *)
(***************************************************************************)
\* 100.0 * (500.0 / 100.0).powf(i / 20.0), i = 1..20
BassTable ==
    << 108380, 117462, 127305, 137973, 149535, 162066, 175646, 190365,
       206318, 223607, 242345, 262653, 284663, 308517, 334370, 362390,
       392758, 425670, 461340, 500000 >>

\* 500.0 * (4000.0 / 500.0).powf(i / 24.0), i = 1..24
MidTable ==
    << 545254, 594604, 648420, 707107, 771105, 840896, 917004, 1000000,
       1090508, 1189207, 1296840, 1414214, 1542211, 1681793, 1834008,
       2000000, 2181015, 2378414, 2593679, 2828427, 3084422, 3363586,
       3668016, 4000000 >>

\* 4000.0 * (20000.0 / 4000.0).powf(i / 16.0), i = 1..16
HighTable ==
    << 4423292, 4891378, 5408999, 5981395, 6614365, 7314316, 8088340,
       8944272, 9890781, 10937454, 12094889, 13374807, 14790169, 16355309,
       18086076, 20000000 >>

\* (log_min + i * log_step).exp(), i = 0..num_bars, for the bar counts of
\* the fallback arm that the model uses; NaN for num_bars = 0, where
\* log_step is infinite and 0 * inf is NaN
NaN == -1

LogTable ==
    [n \in 0..8 |->
        CASE n = 0 -> << NaN >>
          [] n = 1 -> << 20000, 19999992 >>
          [] n = 2 -> << 20000, 632455, 19999992 >>
          [] n = 3 -> << 20000, 200000, 1999999, 19999992 >>
          [] n = 4 -> << 20000, 112468, 632455, 3556556, 19999992 >>
          [] n = 5 -> << 20000, 79621, 316979, 1261915, 5023772, 19999992 >>
          [] n = 6 -> << 20000, 63246, 200000, 632455, 1999999, 6324552,
                         19999992 >>
          [] n = 7 -> << 20000, 53654, 143937, 386139, 1035895, 2778990,
                         7455185, 19999992 >>
          [] n = 8 -> << 20000, 47427, 112468, 266704, 632455, 1499788,
                         3556556, 8433930, 19999992 >>]

\* the sub-bass band: 20.0 + (i / n) * 80.0 for i = 0..n
SubBassBand(n) ==
    [k \in 1..(n + 1) |-> 20 * MilliHz + ((k - 1) * 80 * MilliHz) \div n]

\* a geometric band whose loop stops one step early (1..n instead of 1..=n)
GeoBand_exclusive(table, n) ==
    [i \in 1..(n - 1) |-> table[i * (Len(table) \div n)]]

\* a geometric band of n bins: the i-th of n steps of a band tabulated in
\* Len(table) steps (i / n and (i * Len(table) / n) / Len(table) are the
\* same f32 exponent)
GeoBand(table, n) == [i \in 1..n |-> table[i * (Len(table) \div n)]]

generate_log_frequencies(min_freq, max_freq, num_bars) ==
    CASE num_bars = 64 ->
            SubBassBand(4) \o GeoBand(BassTable, 20)
                \o GeoBand(MidTable, 24) \o GeoBand(HighTable, 16)
      [] num_bars = 32 ->
            SubBassBand(2) \o GeoBand(BassTable, 10)
                \o GeoBand(MidTable, 12) \o GeoBand(HighTable, 8)
      [] num_bars = 16 ->
            << 20 * MilliHz, 100 * MilliHz >> \o GeoBand(BassTable, 5)
                \o GeoBand(MidTable, 6) \o GeoBand(HighTable, 4)
      [] OTHER -> LogTable[num_bars]

(***************************************************************************)
(* DynamicRangeScaler                                                      *)
(***************************************************************************)
\* sorted_mags.get(idx).unwrap_or(&0.0), idx 0-based
GetOr0(s, idx) == IF idx + 1 <= Len(s) THEN s[idx + 1] ELSE 0

\* x.powf(1.5), x.powf(2.0), x.powf(3.0) for 0 <= x <= 1.0
Powf15(x) == RoundDiv(x * SqrtFloor(x * Unit, 0, Unit), Unit)

Powf2(x) == RoundDiv(x * x, Unit)

Powf3(x) == RoundDiv(RoundDiv(x * x, Unit) * x, Unit)

\* the 0.001 guard of the divisions
Epsilon == Unit \div 1000

\* the f32 literal n / 100 (0.2, 0.4, 0.6, 0.25, 0.85, 0.15)
Hundredths(n) == (n * Unit) \div 100

\* a scaling whose third segment spans 0.20 instead of 0.25
scaled_short_third(mag, p25_val, p75_val, p90_val, max_val) ==
    IF mag <= p25_val
    THEN RoundDiv(RoundDiv(mag * Unit, Max(p25_val, Epsilon))
                    * Hundredths(20), Unit)
    ELSE IF mag <= p75_val
    THEN Hundredths(20) + RoundDiv(
            Powf15(RoundDiv((mag - p25_val) * Unit,
                            Max(p75_val - p25_val, Epsilon)))
                * Hundredths(40), Unit)
    ELSE IF mag <= p90_val
    THEN Hundredths(60) + RoundDiv(
            Powf2(RoundDiv((mag - p75_val) * Unit,
                           Max(p90_val - p75_val, Epsilon)))
                * Hundredths(20), Unit)
    ELSE Hundredths(85) + RoundDiv(
            Powf3(RoundDiv((mag - p90_val) * Unit,
                           Max(max_val - p90_val, Epsilon)))
                * Hundredths(15), Unit)

\* the scaled value of one raw magnitude against the frame's thresholds
scaled(mag, p25_val, p75_val, p90_val, max_val) ==
    IF mag <= p25_val
    THEN RoundDiv(RoundDiv(mag * Unit, Max(p25_val, Epsilon))
                    * Hundredths(20), Unit)
    ELSE IF mag <= p75_val
    THEN Hundredths(20) + RoundDiv(
            Powf15(RoundDiv((mag - p25_val) * Unit,
                            Max(p75_val - p25_val, Epsilon)))
                * Hundredths(40), Unit)
    ELSE IF mag <= p90_val
    THEN Hundredths(60) + RoundDiv(
            Powf2(RoundDiv((mag - p75_val) * Unit,
                           Max(p90_val - p75_val, Epsilon)))
                * Hundredths(25), Unit)
    ELSE Hundredths(85) + RoundDiv(
            Powf3(RoundDiv((mag - p90_val) * Unit,
                           Max(max_val - p90_val, Epsilon)))
                * Hundredths(15), Unit)

\* the contents of output_bars after the call
apply_dynamic_scaling(raw_magnitudes, num_bars) ==
    LET sorted_mags == SortSeq(raw_magnitudes, LAMBDA a, b : a < b)
        p25_idx == (num_bars * 25) \div 100
        p75_idx == (num_bars * 75) \div 100
        p90_idx == (num_bars * 90) \div 100
        p25_val == GetOr0(sorted_mags, p25_idx)
        p75_val == GetOr0(sorted_mags, p75_idx)
        p90_val == GetOr0(sorted_mags, p90_idx)
        max_val == IF Len(sorted_mags) > 0
                   THEN sorted_mags[Len(sorted_mags)] ELSE 0
    IN  [i \in 1..num_bars |->
            Min(scaled(raw_magnitudes[i], p25_val, p75_val, p90_val, max_val),
                Unit)]

(***************************************************************************)
(* FrequencyBucketMapper: per-frame mapping                                *)
(***************************************************************************)
RECURSIVE MulPow2Div(_, _, _, _)
\* floor((q + r / d) * 2^k) for r < d, by long division
MulPow2Div(q, r, d, k) ==
    IF k = 0 THEN q
    ELSE LET bit == IF 2 * r >= d THEN 1 ELSE 0
         IN  MulPow2Div(2 * q + bit, 2 * r - bit * d, d, k - 1)

\* (freq / freq_resolution) as usize, freq_resolution = sample_rate / 1024.0
BinOf(freq, sample_rate) ==
    LET d == sample_rate * MilliHz
    IN  MulPow2Div(freq \div d, freq % d, d, 10)

RECURSIVE SumBins(_, _, _)
\* sum and count of the magnitudes at the bin indices lo..hi (0-based) that
\* are below nyquist_bin and inside the frame; the range is summed by halves
SumBins(fft_frame, lo, hi) ==
    IF lo > hi THEN [sum |-> 0, count |-> 0]
    ELSE IF lo = hi
    THEN IF lo < nyquist_bin /\ lo < Len(fft_frame)
         THEN [sum |-> fft_frame[lo + 1], count |-> 1]
         ELSE [sum |-> 0, count |-> 0]
    ELSE LET mid   == (lo + hi) \div 2
             left  == SumBins(fft_frame, lo, mid)
             right == SumBins(fft_frame, mid + 1, hi)
         IN  [sum |-> left.sum + right.sum, count |-> left.count + right.count]

\* a start bin that is not clamped to nyquist_bin
bin_start_unclamped(freq_start, sample_rate) == BinOf(freq_start, sample_rate)

\* ((freq_start / freq_resolution) as usize).min(nyquist_bin)
bin_start(freq_start, sample_rate) ==
    Min(BinOf(freq_start, sample_rate), nyquist_bin)

\* ((freq_end / freq_resolution) as usize).min(nyquist_bin).max(bin_start)
bin_end(freq_end, sample_rate, start) ==
    Max(Min(BinOf(freq_end, sample_rate), nyquist_bin), start)

\* the bin indices at which the summing loop reads fft_frame
bins_read(fft_frame, lo, hi) ==
    {bin_idx \in lo..hi : bin_idx < nyquist_bin /\ bin_idx < Len(fft_frame)}

\* the raw magnitude of bar b (1-based): the mean of the bins that are read
raw_magnitude(fft_frame, sample_rate, freq_boundaries, b) ==
    LET start == bin_start(freq_boundaries[b], sample_rate)
        end   == bin_end(freq_boundaries[b + 1], sample_rate, start)
        acc   == SumBins(fft_frame, start, end)
    IN  IF acc.count > 0 THEN RoundDiv(acc.sum, acc.count) ELSE 0

\* first pass of map_fft_to_bars: the raw magnitude of every bar
raw_magnitudes(fft_frame, sample_rate, freq_boundaries, num_bars) ==
    [b \in 1..num_bars |->
        raw_magnitude(fft_frame, sample_rate, freq_boundaries, b)]

map_fft_to_bars(fft_frame, sample_rate, freq_boundaries, num_bars) ==
    IF Len(freq_boundaries) < num_bars + 1 THEN Zeros(num_bars)
    ELSE apply_dynamic_scaling(
            \* the vector of the first pass, built once
            raw_magnitudes(fft_frame, sample_rate, freq_boundaries, num_bars)
                \o << >>,
            num_bars)

(***************************************************************************)
(* TemporalSmoother                                                        *)
(***************************************************************************)
\* an interpolation that forgets to attenuate the previous value
Lerp_unattenuated(previous, target, smoothing_factor) ==
    RoundDiv(previous * Unit + target * smoothing_factor, Unit)

\* previous * (1.0 - smoothing_factor) + target * smoothing_factor
Lerp(previous, target, smoothing_factor) ==
    RoundDiv(previous * (Unit - smoothing_factor) + target * smoothing_factor,
             Unit)

\* a smoother whose result takes the length of the target
smooth_interpolate_target_len(prev, size, target_bars, smoothing_factor) ==
    LET previous == IF Len(prev) # size THEN Zeros(size) ELSE prev
    IN  [i \in 1..Len(target_bars) |->
            IF i <= size
            THEN Lerp(previous[i], target_bars[i], smoothing_factor)
            ELSE 0]

\* the vector smooth_interpolate returns (and stores in previous_bars),
\* given the current previous_bars and bin_size
smooth_interpolate(prev, size, target_bars, smoothing_factor) ==
    LET previous    == IF Len(prev) # size THEN Zeros(size) ELSE prev
        actual_size == Min(size, Len(target_bars))
    IN  [i \in 1..size |->
            IF i <= actual_size
            THEN Lerp(previous[i], target_bars[i], smoothing_factor)
            ELSE 0]

\* the new frequency_bars: cleared, then the bars of every spectral frame
map_to_frequency_bars(spectra, sample_rate, num_bars) ==
    LET freq_boundaries ==
            generate_log_frequencies(20 * MilliHz, 20000 * MilliHz, num_bars)
    IN  [k \in 1..Len(spectra) |->
            map_fft_to_bars(spectra[k], sample_rate, freq_boundaries,
                            num_bars)]

(***************************************************************************)
(* Inputs of the calls                                                     *)
(***************************************************************************)
MaxFrameIndex == 2

MaxRenders == 2

FrameIndices == 0..MaxFrameIndex

SmoothingFactors == {0, Unit \div 2, Unit}

BinSizes == {3, 64}

WavFile(channels, sample_rate, bits, len, chan) ==
    [header_ok |-> TRUE, channels |-> channels, sample_rate |-> sample_rate,
     bits |-> bits, len |-> len, chan |-> chan]

\* bytes that WavReader::new rejects
NotWav ==
    [header_ok |-> FALSE, channels |-> 0, sample_rate |-> 0, bits |-> 0,
     len |-> 0, chan |-> << >>]

Files ==
    { WavFile(1, 44100, 16, 1500, << "saw" >>),
      WavFile(1, 44100, 16, 700, << "tone" >>),
      WavFile(1, 44100, 16, 0, << "silence" >>),
      WavFile(1, 44100, 16, 2048, << "silence" >>),
      WavFile(2, 44100, 16, 2048, << "silence", "saw" >>),
      WavFile(2, 8000, 16, 2048, << "tone", "silence" >>),
      WavFile(2, 44100, 16, 3000, << "saw", "tone" >>),
      WavFile(2, 22050, 16, 3000, << "saw", "tone" >>),
      WavFile(3, 44100, 16, 1100, << "dc", "saw", "silence" >>),
      WavFile(1, 44100, 24, 1500, << "saw" >>),
      NotWav }

\* the files that are loaded between renders: the rejected bytes, the mono
\* files of at most 1500 samples and the stereo file with a silent left
\* channel
PlayedFiles ==
    {f \in Files : \/ f.channels = 0
                   \/ f.channels = 1 /\ f.len <= 1500
                   \/ f.channels = 2 /\ f.chan[1] = "silence"}

\* a load that also refuses a file without samples
Loadable_nonempty(f) == HeaderOk(f) /\ SamplesOk(f) /\ f.len > 0

Loadable(f) == HeaderOk(f) /\ SamplesOk(f)

\* The pipeline on every loadable file and bar count, evaluated once:
\* process_audio_frames on the mono samples, process_fft on the frames,
\* map_to_frequency_bars on the spectra.
\* a segmentation that follows the declared rate: a file declared at
\* another rate than 44100 Hz gets half the frames
Segmented_at_declared_rate ==
    [f \in {g \in Files : Loadable(g)} |->
        LET frames ==
                process_audio_frames(mono_samples(f.channels, Samples(f)))
        IN  IF f.sample_rate = SAMPLE_RATE THEN frames
            ELSE SubSeq(frames, 1, Len(frames) \div 2)]

Segmented ==
    [f \in {g \in Files : Loadable(g)} |->
        process_audio_frames(mono_samples(f.channels, Samples(f)))]

Transformed == [f \in DOMAIN Segmented |-> process_fft(Segmented[f])]

Mapped ==
    [f \in DOMAIN Segmented |->
        [n \in BinSizes \cup {DefaultBinSize} |->
            map_to_frequency_bars(Transformed[f], f.sample_rate, n)]]

\* what a call returns: () | Ok(()) | Err(..) | a usize | a Vec<f32>
Returned(kind, value) == [kind |-> kind, value |-> value]

NoValue == Returned("unit", << >>)

(***************************************************************************)
(* State                                                                   *)
(***************************************************************************)
\* App::new
AppNew ==
    /\ audio_frames = << >>
    /\ fft_results = << >>
    /\ frequency_bars = << >>
    /\ previous_bars = Zeros(DefaultBinSize)
    /\ audio_processed = FALSE
    /\ bin_size = DefaultBinSize
    /\ renderer = [frame_count |-> 0, bars |-> << >>, bin_size |-> 0]
    /\ pc = "idle"
    /\ file = NotWav
    /\ ret = NoValue

Init ==
    /\ AppNew
    /\ input = << >>
    /\ output = << >>

\* a borrow check that lets a call start while a load is in progress
CanAlwaysBorrow == TRUE

\* An exported method borrows the App (&self or &mut self) for the whole
\* call, so a call starts only when no other call is in progress.
CanBorrow == pc = "idle"

(***************************************************************************)
(* render                                                                  *)
(***************************************************************************)
\* a target selection that is one frame late
target_bars_late(frame_index) ==
    IF 0 < frame_index /\ frame_index <= Len(frequency_bars)
    THEN frequency_bars[frame_index]
    ELSE Zeros(bin_size)

\* the target BarFrame of a render call while audio_processed
target_bars(frame_index) ==
    IF frame_index < Len(frequency_bars)
    THEN frequency_bars[frame_index + 1]
    ELSE Zeros(bin_size)

\* Renderer::render: counts the frame and takes the bars
Renderer_render(frequency_bars_arg, bin_size_arg) ==
    [frame_count |-> renderer.frame_count + 1,
     bars |-> frequency_bars_arg, bin_size |-> bin_size_arg]

\* a render that runs the filter twice
smoothed_bars_twice(frame_index, smoothing_factor) ==
    IF audio_processed
    THEN smooth_interpolate(
            smooth_interpolate(previous_bars, bin_size,
                               target_bars(frame_index), smoothing_factor),
            bin_size, target_bars(frame_index), smoothing_factor)
    ELSE Zeros(bin_size)

\* the vector a render call hands to the renderer in the current state
smoothed_bars(frame_index, smoothing_factor) ==
    IF audio_processed
    THEN smooth_interpolate(previous_bars, bin_size, target_bars(frame_index),
                            smoothing_factor)
    ELSE Zeros(bin_size)

render(frame_index, smoothing_factor) ==
    /\ CanBorrow
    /\ renderer.frame_count < MaxRenders
    /\ renderer' = Renderer_render(smoothed_bars(frame_index, smoothing_factor),
                                   bin_size)
    /\ IF audio_processed
       THEN previous_bars' = smoothed_bars(frame_index, smoothing_factor)
       ELSE UNCHANGED previous_bars
    /\ ret' = NoValue
    /\ UNCHANGED << audio_frames, fft_results, frequency_bars,
                    audio_processed, bin_size, pc, file, input, output >>

(***************************************************************************)
(* Queries and configuration                                               *)
(***************************************************************************)
\* a lookup that clamps the index to the last stored frame
bars_at_clamped(frame_index) ==
    IF audio_processed /\ Len(frequency_bars) > 0
    THEN frequency_bars[Min(frame_index + 1, Len(frequency_bars))]
    ELSE Zeros(bin_size)

\* the vector get_frequency_bars returns
bars_at(frame_index) ==
    IF audio_processed /\ frame_index < Len(frequency_bars)
    THEN frequency_bars[frame_index + 1]
    ELSE Zeros(bin_size)

\* the count get_total_frames returns
total_frames == IF audio_processed THEN Len(frequency_bars) ELSE 0

get_frequency_bars(frame_index) ==
    /\ CanBorrow
    /\ ret' = Returned("bars", bars_at(frame_index))
    /\ UNCHANGED << audio_frames, fft_results, frequency_bars, previous_bars,
                    audio_processed, bin_size, renderer, pc, file, input,
                    output >>

get_total_frames ==
    /\ CanBorrow
    /\ ret' = Returned("count", total_frames)
    /\ UNCHANGED << audio_frames, fft_results, frequency_bars, previous_bars,
                    audio_processed, bin_size, renderer, pc, file, input,
                    output >>

\* a set_bin_size that leaves the smoothing state as it is
set_bin_size_keeps_smoothing(n) ==
    /\ CanBorrow
    /\ bin_size' = n
    /\ ret' = NoValue
    /\ UNCHANGED << audio_frames, fft_results, frequency_bars,
                    previous_bars, audio_processed, renderer, pc, file,
                    input, output >>

set_bin_size(n) ==
    /\ CanBorrow
    /\ bin_size' = n
    /\ previous_bars' = Zeros(n)
    /\ ret' = NoValue
    /\ UNCHANGED << audio_frames, fft_results, frequency_bars,
                    audio_processed, renderer, pc, file, input, output >>

(***************************************************************************)
(* process_audio_file, the whole call                                      *)
(***************************************************************************)
\* a load that has already begun to rebuild the frames when the samples
\* turn out to be unreadable
process_audio_file_late_error(f) ==
    /\ CanBorrow
    /\ IF Loadable(f)
       THEN /\ audio_frames' = Segmented[f]
            /\ fft_results' = Transformed[f]
            /\ frequency_bars' = Mapped[f][bin_size]
            /\ audio_processed' = TRUE
            /\ file' = f
            /\ ret' = Returned("Ok", << >>)
       ELSE /\ ret' = Returned("Err", << >>)
            /\ audio_frames' = << >>
            /\ UNCHANGED << fft_results, frequency_bars, audio_processed,
                            file >>
    /\ UNCHANGED << previous_bars, bin_size, renderer, pc, input, output >>

process_audio_file(f) ==
    /\ CanBorrow
    /\ IF Loadable(f)
       THEN /\ audio_frames' = Segmented[f]
            /\ fft_results' = Transformed[f]
            /\ frequency_bars' = Mapped[f][bin_size]
            /\ audio_processed' = TRUE
            /\ file' = f
            /\ ret' = Returned("Ok", << >>)
       ELSE /\ ret' = Returned("Err", << >>)
            /\ UNCHANGED << audio_frames, fft_results, frequency_bars,
                            audio_processed, file >>
    /\ UNCHANGED << previous_bars, bin_size, renderer, pc, input, output >>

(***************************************************************************)
(* Specification                                                           *)
(***************************************************************************)
Next ==
    \/ \E i \in FrameIndices, s \in SmoothingFactors : render(i, s)
    \/ \E i \in FrameIndices : get_frequency_bars(i)
    \/ get_total_frames
    \/ \E n \in BinSizes : set_bin_size(n)
    \/ \E f \in PlayedFiles : process_audio_file(f)

Spec == Init /\ [][Next]_vars

(***************************************************************************)
(* Loads of every file, with the queries and set_bin_size but no renders   *)
(***************************************************************************)
NextLoads ==
    \/ \E i \in FrameIndices : get_frequency_bars(i)
    \/ get_total_frames
    \/ \E n \in BinSizes : set_bin_size(n)
    \/ \E f \in Files : process_audio_file(f)

SpecLoads == Init /\ [][NextLoads]_vars

(***************************************************************************)
(* process_audio_file, statement by statement.  The successful call        *)
(* rewrites the three sequences in place, one after the other, and sets    *)
(* audio_processed last.  pc is the statement the call has reached; the    *)
(* App stays mutably borrowed until the call returns.                      *)
(***************************************************************************)
\* self.process_audio_frames(&mono_samples)
process_audio_file_frames(f) ==
    /\ CanBorrow
    /\ Loadable(f)
    /\ audio_frames' = Segmented[f]
    /\ file' = f
    /\ pc' = "process_fft"
    /\ UNCHANGED << fft_results, frequency_bars, previous_bars,
                    audio_processed, bin_size, renderer, ret, input, output >>

\* self.process_fft(): the spectra of audio_frames, which are the frames
\* of file
process_audio_file_fft ==
    /\ pc = "process_fft"
    /\ fft_results' = Transformed[file]
    /\ pc' = "map_to_frequency_bars"
    /\ UNCHANGED << audio_frames, frequency_bars, previous_bars,
                    audio_processed, bin_size, renderer, file, ret, input,
                    output >>

\* map_to_frequency_bars: self.frequency_bars.clear()
map_to_frequency_bars_clear ==
    /\ pc = "map_to_frequency_bars"
    /\ frequency_bars' = << >>
    /\ pc' = "push_bars"
    /\ UNCHANGED << audio_frames, fft_results, previous_bars,
                    audio_processed, bin_size, renderer, file, ret, input,
                    output >>

\* map_to_frequency_bars: one iteration of the loop over fft_results,
\* pushing the bars map_fft_to_bars computes for the next spectrum of file
map_to_frequency_bars_push ==
    /\ pc = "push_bars"
    /\ Len(frequency_bars) < Len(fft_results)
    /\ frequency_bars' =
            Append(frequency_bars,
                   Mapped[file][bin_size][Len(frequency_bars) + 1])
    /\ UNCHANGED << audio_frames, fft_results, previous_bars,
                    audio_processed, bin_size, renderer, pc, file, ret,
                    input, output >>

\* the loop is over: self.audio_processed = true; Ok(())
process_audio_file_return ==
    /\ pc = "push_bars"
    /\ Len(frequency_bars) >= Len(fft_results)
    /\ audio_processed' = TRUE
    /\ pc' = "idle"
    /\ ret' = Returned("Ok", << >>)
    /\ UNCHANGED << audio_frames, fft_results, frequency_bars, previous_bars,
                    bin_size, renderer, file, input, output >>

\* the calls that read the analysis state
ReaderCall ==
    \/ \E i \in FrameIndices, s \in SmoothingFactors : render(i, s)
    \/ \E i \in FrameIndices : get_frequency_bars(i)
    \/ get_total_frames

StepFiles == {f \in Files : f.channels = 1}

NextSteps ==
    \/ ReaderCall
    \/ \E n \in BinSizes : set_bin_size(n)
    \/ \E f \in StepFiles : ~Loadable(f) /\ process_audio_file(f)
    \/ \E f \in StepFiles : process_audio_file_frames(f)
    \/ process_audio_file_fft
    \/ map_to_frequency_bars_clear
    \/ map_to_frequency_bars_push
    \/ process_audio_file_return

SpecSteps == Init /\ [][NextSteps]_vars

(***************************************************************************)
(* The segmenter applied to buffer lengths of its own.  The frame          *)
(* arithmetic depends on the length of the buffer only; the lengths are    *)
(* the short ones and the multiples of 735 = 44100 / 60, where             *)
(* len / 44100 * 120 is a whole number.                                    *)
(***************************************************************************)
MaxLen == 91000

ShortLen == 3072

BufferLens == {len \in 0..MaxLen : len <= ShortLen \/ len % 735 = 0}

AppUnchanged ==
    UNCHANGED << audio_frames, fft_results, frequency_bars, previous_bars,
                 audio_processed, bin_size, renderer, pc, file, ret >>

InitSegmenter ==
    /\ AppNew
    /\ input \in {<< len >> : len \in BufferLens}
    /\ output = << >>

\* process_audio_frames on a buffer of input[1] samples: target_frames,
\* hop_size and the number of frames in audio_frames afterwards
segment_samples ==
    /\ Len(output) = 0
    /\ output' = << target_frames(input[1]), hop_size(input[1]),
                    frames_pushed(input[1]) >>
    /\ UNCHANGED input
    /\ AppUnchanged

NextSegmenter == segment_samples

SpecSegmenter == InitSegmenter /\ [][NextSegmenter]_vars

(***************************************************************************)
(* The scaler applied to raw-magnitude vectors of its own: vectors of up   *)
(* to MaxBars values, built in nondecreasing order and scaled in that      *)
(* order or reversed.  The values include pairs closer than the 0.001      *)
(* guard.                                                                  *)
(***************************************************************************)
MaxBars == 11

RawValues == {0, 4, Unit \div 2, Unit \div 2 + 4, 2 * Unit}

Reverse(v) == [i \in 1..Len(v) |-> v[Len(v) + 1 - i]]

InitScaler ==
    /\ AppNew
    /\ input = << >>
    /\ output = << >>

\* one more raw magnitude of the frame
push_raw_magnitude(v) ==
    /\ Len(output) = 0
    /\ Len(input) < MaxBars
    /\ Len(input) > 0 => input[Len(input)] <= v
    /\ input' = Append(input, v)
    /\ UNCHANGED output
    /\ AppUnchanged

\* apply_dynamic_scaling on the vector, as built or reversed
scale_raw_magnitudes(reversed) ==
    /\ Len(output) = 0
    /\ Len(input) > 0
    /\ input' = IF reversed THEN Reverse(input) ELSE input
    /\ output' = apply_dynamic_scaling(input', Len(input'))
    /\ AppUnchanged

NextScaler ==
    \/ \E v \in RawValues : push_raw_magnitude(v)
    \/ \E reversed \in BOOLEAN : scale_raw_magnitudes(reversed)

SpecScaler == InitScaler /\ [][NextScaler]_vars

(***************************************************************************)
(* The boundary table generated on its own, entry by entry as the loops    *)
(* of generate_log_frequencies push it, for the curated bar counts and     *)
(* the bar counts 1..MaxFallbackBars of the fallback arm.                  *)
(***************************************************************************)
MaxFallbackBars == 5

BarCounts == (1..MaxFallbackBars) \cup {16, 32, 64}

InitBoundaries ==
    /\ AppNew
    /\ input \in {<< n >> : n \in BarCounts}
    /\ output = << >>

\* frequencies.push(freq): the next entry of the table for input[1] bars
generate_log_frequencies_push ==
    LET frequencies ==
            generate_log_frequencies(20 * MilliHz, 20000 * MilliHz, input[1])
    IN  /\ ret.kind = "unit"
        /\ Len(output) < Len(frequencies)
        /\ output' = Append(output, frequencies[Len(output) + 1])
        /\ UNCHANGED << audio_frames, fft_results, frequency_bars,
                        previous_bars, audio_processed, bin_size, renderer,
                        pc, file, ret, input >>

\* the loops are over: frequencies is returned
generate_log_frequencies_return ==
    LET frequencies ==
            generate_log_frequencies(20 * MilliHz, 20000 * MilliHz, input[1])
    IN  /\ ret.kind = "unit"
        /\ Len(output) = Len(frequencies)
        /\ ret' = Returned("frequencies", output)
        /\ UNCHANGED << audio_frames, fft_results, frequency_bars,
                        previous_bars, audio_processed, bin_size, renderer,
                        pc, file, input, output >>

NextBoundaries ==
    \/ generate_log_frequencies_push
    \/ generate_log_frequencies_return

SpecBoundaries == InitBoundaries /\ [][NextBoundaries]_vars

(***************************************************************************)
(* The per-frame mapping applied bar by bar, as the first pass of          *)
(* map_fft_to_bars fills raw_magnitudes: the first spectral frame of a     *)
(* loadable file, mapped at a declared sample rate of its own (the header  *)
(* of a file declares any rate for any samples) and a bar count.           *)
(***************************************************************************)
SampleRates == {8000, 22050, 44100, 96000}

MappedBarCounts == {3, 16, 64}

FramedFiles == {f \in DOMAIN Transformed : Len(Transformed[f]) > 0}

InitMapper ==
    /\ AppNew
    /\ input \in {<< f, r, n >> :
                     f \in FramedFiles, r \in SampleRates,
                     n \in MappedBarCounts}
    /\ output = << >>

\* one iteration of the loop over bar_idx: the bin range of the bar, the
\* bins that are read and the value stored in raw_magnitudes[bar_idx]
map_fft_to_bars_bar ==
    LET fft_frame == Transformed[input[1]][1]
        freq_boundaries ==
            generate_log_frequencies(20 * MilliHz, 20000 * MilliHz, input[3])
        b     == Len(output) + 1
        start == bin_start(freq_boundaries[b], input[2])
        end   == bin_end(freq_boundaries[b + 1], input[2], start)
    IN  /\ ret.kind = "unit"
        /\ Len(output) < input[3]
        /\ output' = Append(output,
                            [bin_start |-> start, bin_end |-> end,
                             read |-> bins_read(fft_frame, start, end),
                             raw |-> raw_magnitude(fft_frame, input[2],
                                                   freq_boundaries, b)])
        /\ UNCHANGED << audio_frames, fft_results, frequency_bars,
                        previous_bars, audio_processed, bin_size, renderer,
                        pc, file, ret, input >>

\* the first pass is over: the raw magnitudes are scaled and returned
map_fft_to_bars_return ==
    LET fft_frame == Transformed[input[1]][1]
        freq_boundaries ==
            generate_log_frequencies(20 * MilliHz, 20000 * MilliHz, input[3])
    IN  /\ ret.kind = "unit"
        /\ Len(output) = input[3]
        /\ ret' = Returned("bars",
                           map_fft_to_bars(fft_frame, input[2],
                                           freq_boundaries, input[3]))
        /\ UNCHANGED << audio_frames, fft_results, frequency_bars,
                        previous_bars, audio_processed, bin_size, renderer,
                        pc, file, input, output >>

NextMapper ==
    \/ map_fft_to_bars_bar
    \/ map_fft_to_bars_return

SpecMapper == InitMapper /\ [][NextMapper]_vars

(***************************************************************************)
(* Properties                                                              *)
(***************************************************************************)
AnalysisState ==
    << audio_frames, fft_results, frequency_bars, previous_bars, bin_size,
       audio_processed >>

\* C1: a process_audio_file call that returns an error leaves audio_frames,
\* fft_results, frequency_bars, previous_bars, bin_size and audio_processed
\* exactly as they were, so that get_frequency_bars and get_total_frames
\* answer as before the call.
C1_FailedLoadChangesNothing ==
    [][(ret'.kind = "Err" /\ \E f \in Files : process_audio_file(f))
        => /\ AnalysisState' = AnalysisState
           /\ total_frames' = total_frames
           /\ \A i \in FrameIndices : bars_at(i)' = bars_at(i)]_vars

\* a load has failed after an earlier load had succeeded with frames
C1_Witness ==
    /\ ret.kind = "Err"
    /\ audio_processed
    /\ Len(frequency_bars) > 0

\* the three sequences are the complete result of one load: the frames of
\* one file, their spectra, and the bars of these spectra for one bar count
OneLoad ==
    \E f \in DOMAIN Segmented, n \in BinSizes \cup {DefaultBinSize} :
        /\ audio_frames = Segmented[f]
        /\ fft_results = Transformed[f]
        /\ frequency_bars = Mapped[f][n]

PartiallyRebuilt == audio_processed /\ ~OneLoad

\* C2: no render, get_frequency_bars or get_total_frames call runs on a
\* partially rebuilt state (audio_processed set while frequency_bars is
\* cleared or partly refilled, or the three sequences come from different
\* loads), although a reload passes through such states.
C2_ReadersSeeWholeLoads == [][PartiallyRebuilt => ~ReaderCall]_vars

\* a reload is under way: audio_processed is still set from the earlier
\* load and frequency_bars has been cleared and not yet refilled
C2_Witness ==
    /\ pc = "push_bars"
    /\ audio_processed
    /\ Len(frequency_bars) < Len(fft_results)

AllZero(v) == \A k \in 1..Len(v) : v[k] = 0

InUnitRange(v) == \A k \in 1..Len(v) : 0 <= v[k] /\ v[k] <= Unit

\* C3: get_frequency_bars(frame_index) with frame_index >= get_total_frames()
\* returns exactly bin_size zeros, before any load as well as after one.
C3_OutOfRangeGivesZeros ==
    [][\A i \in FrameIndices :
          (i >= total_frames /\ ret'.kind = "bars" /\ get_frequency_bars(i))
              => /\ Len(ret'.value) = bin_size
                 /\ AllZero(ret'.value)]_vars

\* an out-of-range query has answered bin_size zeros while the stored
\* frames are non-zero and have another length than bin_size
C3_Witness ==
    /\ ret.kind = "bars"
    /\ audio_processed
    /\ Len(frequency_bars) > 0
    /\ \A j \in 1..Len(frequency_bars) :
          Len(frequency_bars[j]) # bin_size /\ ~AllZero(frequency_bars[j])
    /\ Len(ret.value) = bin_size
    /\ AllZero(ret.value)

\* C5 (as claimed): previous_bars is changed by a render and reset to zeros
\* by a set_bin_size call whose argument differs from bin_size, by nothing
\* else; a set_bin_size call whose argument is the bin_size already in
\* effect leaves previous_bars as the last render left it.
C5_SameBinSizeKeepsSmoothing ==
    [][/\ previous_bars' # previous_bars
          => \/ \E i \in FrameIndices, s \in SmoothingFactors : render(i, s)
             \/ \E n \in BinSizes : set_bin_size(n) /\ n # bin_size
       /\ \A n \in BinSizes :
             (set_bin_size(n) /\ n = bin_size)
                 => previous_bars' = previous_bars]_vars

\* C6: every render call (the step that advances the renderer's frame
\* counter) hands the renderer a bar vector of length bin_size, together
\* with bin_size itself.
C6_RenderedLengthIsBinSize ==
    [][renderer'.frame_count = renderer.frame_count + 1
          => /\ Len(renderer'.bars) = bin_size
             /\ renderer'.bin_size = bin_size]_vars

\* a stored frame of another length than bin_size has been rendered: the
\* renderer holds non-zero bars of length bin_size
C6_Witness ==
    /\ renderer.frame_count > 0
    /\ audio_processed
    /\ Len(frequency_bars) > 0
    /\ Len(frequency_bars[1]) # bin_size
    /\ renderer.bin_size = bin_size
    /\ Len(renderer.bars) = bin_size
    /\ ~AllZero(renderer.bars)

\* C7: every stored bar value, every bar value handed to the renderer and
\* every value of the smoothing state lies in [0, 1].
C7_BarsInUnitRange ==
    /\ \A j \in 1..Len(frequency_bars) : InUnitRange(frequency_bars[j])
    /\ InUnitRange(previous_bars)
    /\ InUnitRange(renderer.bars)

\* a frame that reaches the top branch of the scaler is stored and two
\* renders have left a smoothed value strictly inside (0, 1)
C7_Witness ==
    /\ renderer.frame_count >= 2
    /\ \E j \in 1..Len(frequency_bars) :
          \E k \in 1..Len(frequency_bars[j]) :
              frequency_bars[j][k] > Hundredths(85)
    /\ \E k \in 1..Len(renderer.bars) :
          0 < renderer.bars[k] /\ renderer.bars[k] < Unit
    /\ renderer.bars = previous_bars

\* the target BarFrame of a render call, as the smoother is specified: the
\* stored frame of the index, or bin_size zeros when the index is out of
\* range or no audio is loaded
TargetFrame(i) ==
    IF audio_processed /\ i < Len(frequency_bars)
    THEN frequency_bars[i + 1]
    ELSE Zeros(bin_size)

\* the first n entries of v, with zeros for the entries v does not have
CutOrPadded(v, n) == [k \in 1..n |-> IF k <= Len(v) THEN v[k] ELSE 0]

LeftChannel(f) == [t \in 1..((f.len + 1) \div 2) |-> SampleAt(f.chan[1], t - 1)]

\* the frames of every loadable file when its left channel alone (two
\* channels) or its sample sequence as it is (any other channel count) is
\* segmented
FramesOfLeftChannel ==
    [f \in DOMAIN Segmented |->
        process_audio_frames(IF f.channels = 2 THEN LeftChannel(f)
                             ELSE Samples(f))]

\* C10: after a load the stored frames are those of the left channel when
\* the file has two channels and those of the unchanged sample sequence
\* otherwise; a stereo file with a silent left channel has only zero bars.
C10_LeftChannelOnly ==
    audio_processed
        => /\ audio_frames = FramesOfLeftChannel[file]
           /\ (file.channels = 2 /\ file.chan[1] = "silence")
                 => \A j \in 1..Len(frequency_bars) :
                       AllZero(frequency_bars[j])

\* a stereo file with a silent left and a sounding right channel is loaded
\* and has frames
C10_Witness ==
    /\ audio_processed
    /\ file.channels = 2
    /\ file.chan[1] = "silence"
    /\ file.chan[2] # "silence"
    /\ Len(frequency_bars) > 0
    /\ Len(audio_frames) = Len(frequency_bars)

\* C4 (as claimed): for a buffer of len samples the number of frames is 0
\* if len < 1024 and floor((len - 1024) / hop_size) + 1 otherwise, with
\* target_frames = floor(len / 44100 * 120) and hop_size =
\* floor(len / target_frames) if target_frames > 0 else 1024; hop_size >= 1.
C4_FrameCountFormula ==
    Len(output) > 0
        => LET len == input[1]
               claimed_target == (len * 120) \div 44100
               claimed_hop == IF claimed_target > 0
                              THEN len \div claimed_target ELSE 1024
           IN  /\ output[2] >= 1
               /\ claimed_hop >= 1
               /\ output[3] = IF len < 1024 THEN 0
                              ELSE (len - 1024) \div claimed_hop + 1

\* the value at sorted index idx of the vector v, by rank: fewer than
\* idx + 1 values are below it and at least idx + 1 values are at most it
ValueAtRank(v, idx) ==
    CHOOSE x \in {v[j] : j \in 1..Len(v)} :
        /\ Cardinality({j \in 1..Len(v) : v[j] < x}) <= idx
        /\ Cardinality({j \in 1..Len(v) : v[j] <= x}) > idx

P90Value(v) == ValueAtRank(v, (Len(v) * 90) \div 100)

P75Value(v) == ValueAtRank(v, (Len(v) * 75) \div 100)

\* C9 (as claimed): a raw value equal to the value at the 90th-percentile
\* rank (sorted index floor(num_bars * 0.90)) maps to output 0.85.
C9_P90RankMapsTo085 ==
    Len(output) > 0
        => \A i \in 1..Len(input) :
              input[i] = P90Value(input) => output[i] = Hundredths(85)

\* C9 (amended): a raw value equal to the value at the 90th-percentile rank
\* maps to output 0.85 when that value exceeds the value at the
\* 75th-percentile rank by at least the guard 0.001.
C9_P90RankMapsTo085AboveP75 ==
    (Len(output) > 0 /\ P90Value(input) - P75Value(input) >= Epsilon)
        => \A i \in 1..Len(input) :
              input[i] = P90Value(input) => output[i] = Hundredths(85)

\* a vector long enough for a value above the 90th-percentile rank has
\* been scaled, its 90th-percentile value well above the 75th, and the
\* value at that rank has come out as 0.85
C9_Witness ==
    /\ Len(output) > 10
    /\ P90Value(input) - P75Value(input) >= Epsilon
    /\ \E i \in 1..Len(input) : input[i] > P90Value(input)
    /\ \E i \in 1..Len(input) :
          input[i] = P90Value(input) /\ output[i] = Hundredths(85)

\* the loadable files whose analysed samples (every sample, or the even
\* interleaved positions of a two-channel file) are all zero
SilentFiles ==
    {f \in DOMAIN Segmented :
        \A i \in 1..f.len :
            (f.channels # 2 \/ i % 2 = 1) => Samples(f)[i] = 0}

\* C11: after the load of a file whose analysed samples are all zero every
\* stored BarFrame is all zero, whatever bin_size was in effect.
C11_SilenceGivesZeroBars ==
    (audio_processed /\ file \in SilentFiles)
        => \A j \in 1..Len(frequency_bars) : AllZero(frequency_bars[j])

\* a silent mono file is loaded with the generic bar count 3 and has
\* several frames of 3 bars
C11_Witness ==
    /\ audio_processed
    /\ file \in SilentFiles
    /\ file.channels = 1
    /\ bin_size = 3
    /\ Len(frequency_bars) >= 2
    /\ \A j \in 1..Len(frequency_bars) : Len(frequency_bars[j]) = 3

\* the band sizes named for the curated bar counts
CuratedBands ==
    [n \in {16, 32, 64} |->
        CASE n = 64 -> << 4, 20, 24, 16 >>
          [] n = 32 -> << 2, 10, 12, 8 >>
          [] n = 16 -> << 1, 5, 6, 4 >>]

\* the table has num_bars + 1 strictly increasing entries from 20.0 Hz and,
\* for a curated count, the band edges 100, 500, 4000 and 20000 Hz after
\* the named numbers of bins, which sum to num_bars
WellFormedTable(table, num_bars) ==
    /\ Len(table) = num_bars + 1
    /\ \A k \in 1..(Len(table) - 1) : table[k] < table[k + 1]
    /\ table[1] = 20 * MilliHz
    /\ num_bars \in DOMAIN CuratedBands
          => LET b == CuratedBands[num_bars]
             IN  /\ b[1] + b[2] + b[3] + b[4] = num_bars
                 /\ table[1 + b[1]] = 100 * MilliHz
                 /\ table[1 + b[1] + b[2]] = 500 * MilliHz
                 /\ table[1 + b[1] + b[2] + b[3]] = 4000 * MilliHz
                 /\ table[1 + num_bars] = 20000 * MilliHz

\* C12 (as claimed): for every positive num_bars the generated table has
\* num_bars + 1 entries, is strictly increasing, starts at 20.0 and ends at
\* 20000.0, and the curated band sizes sum to num_bars.
C12_TableEndsAt20000 ==
    ret.kind = "frequencies"
        => /\ WellFormedTable(ret.value, input[1])
           /\ ret.value[Len(ret.value)] = 20000 * MilliHz

\* C12 (amended): as claimed, but the last entry is exactly 20000.0 for the
\* curated counts only; the fallback arm ends within 0.03 Hz of 20000.0.
C12_TableEndsNear20000 ==
    ret.kind = "frequencies"
        => /\ WellFormedTable(ret.value, input[1])
           /\ Abs(ret.value[Len(ret.value)] - 20000 * MilliHz)
                 <= IF input[1] \in DOMAIN CuratedBands THEN 0 ELSE 30

\* a fallback table of several bars has been returned, complete, and its
\* last entry is not 20000.0
C12_Witness ==
    /\ ret.kind = "frequencies"
    /\ input[1] \notin DOMAIN CuratedBands
    /\ input[1] >= 3
    /\ Len(ret.value) = input[1] + 1
    /\ ret.value[Len(ret.value)] # 20000 * MilliHz

\* well-formed audio: a readable header and samples of at most 16 bits
WellFormed(f) == f.header_ok /\ f.bits <= 16

\* the number of samples that are analysed
AnalysedLen(f) == IF f.channels = 2 THEN (f.len + 1) \div 2 ELSE f.len

\* the bars of every loadable file for the bar counts of the fallback arm,
\* mapped with the generic logarithmic boundaries
GenericMapped ==
    [f \in DOMAIN Segmented |->
        [n \in BinSizes \ {16, 32, 64} |->
            [j \in 1..Len(Transformed[f]) |->
                map_fft_to_bars(Transformed[f][j], f.sample_rate,
                                LogTable[n], n)]]]

\* a load of well-formed audio returns Ok; with fewer than 1024 analysed
\* samples it leaves zero frames, and with a bar count other than 16, 32
\* and 64 it stores the bars of the generic boundaries
LoadsDegrade ==
    ret'.kind \in {"Ok", "Err"}
        => \A f \in Files :
              (WellFormed(f) /\ process_audio_file(f))
                  => /\ ret'.kind = "Ok"
                     /\ audio_processed'
                     /\ AnalysedLen(f) < FRAME_SIZE
                           => /\ total_frames' = 0
                              /\ Len(audio_frames') = 0
                     /\ bin_size \notin {16, 32, 64}
                           => frequency_bars' = GenericMapped[f][bin_size]

\* get_frequency_bars with an out-of-range index returns bin_size zeros
QueriesDegrade ==
    ret'.kind = "bars"
        => \A i \in FrameIndices :
              (i >= total_frames /\ get_frequency_bars(i))
                  => Len(ret'.value) = bin_size /\ AllZero(ret'.value)

\* C13 (as claimed): well-formed audio that is empty or shorter than 1024
\* samples loads with Ok and zero frames, a bar count other than 16/32/64
\* loads with Ok and the generic boundaries, and render and
\* get_frequency_bars with an out-of-range index complete with zero bars.
C13_EdgeCasesGiveZeroBars ==
    /\ [][LoadsDegrade /\ QueriesDegrade]_vars
    /\ [](\A i \in FrameIndices, s \in SmoothingFactors :
             i >= total_frames
                 => /\ Len(smoothed_bars(i, s)) = bin_size
                    /\ AllZero(smoothed_bars(i, s)))

\* C13 (amended): as claimed for the loads and for get_frequency_bars; a
\* render with an out-of-range index completes with an all-zero target, so
\* that it hands over previous * (1 - s): zeros when nothing is loaded,
\* when s = 1.0 or when the smoothing state is zero.
C13_EdgeCasesDegrade ==
    /\ [][LoadsDegrade /\ QueriesDegrade]_vars
    /\ [](\A i \in FrameIndices, s \in SmoothingFactors :
             i >= total_frames
                 => smoothed_bars(i, s) =
                       [k \in 1..bin_size |->
                           IF audio_processed
                           THEN RoundDiv(previous_bars[k] * (Unit - s), Unit)
                           ELSE 0])

\* the empty file is loaded at the generic bar count 3, and a render (out
\* of range, as there is no frame) has handed over 3 bars that are not all
\* zero
C13_Witness ==
    /\ audio_processed
    /\ file.len = 0
    /\ bin_size = 3
    /\ Len(frequency_bars) = 0
    /\ renderer.frame_count >= 2
    /\ renderer.bin_size = 3
    /\ renderer.bars = previous_bars
    /\ ~AllZero(renderer.bars)

\* previous[k] * (1 - s) + target[k] * s on bin_size slots, a slot the
\* target does not have counting as 0
OnePole(previous, target, s) ==
    [k \in 1..bin_size |->
        RoundDiv(previous[k] * (Unit - s)
                    + (IF k <= Len(target) THEN target[k] ELSE 0) * s,
                 Unit)]

\* C14: in every state each render call hands over
\* previous * (1 - s) + target * s on every slot, the target being the
\* stored frame of the index or zeros; a step that counts a rendered frame
\* counts one and leaves the output it handed over in previous_bars.
C14_OnePoleOncePerRender ==
    /\ [](\A i \in FrameIndices, s \in SmoothingFactors :
             smoothed_bars(i, s) = OnePole(previous_bars, TargetFrame(i), s))
    /\ [][renderer'.frame_count # renderer.frame_count
             => /\ renderer'.frame_count = renderer.frame_count + 1
                /\ \E i \in FrameIndices, s \in SmoothingFactors :
                      renderer'.bars = smoothed_bars(i, s)
                /\ previous_bars' = renderer'.bars]_vars

\* two renders have left an output that mixes the previous output and a
\* stored frame: some slot is neither zero nor a stored value
C14_Witness ==
    /\ renderer.frame_count >= 2
    /\ audio_processed
    /\ Len(frequency_bars) >= 2
    /\ renderer.bars = previous_bars
    /\ \E k \in 1..Len(renderer.bars) :
          /\ renderer.bars[k] # 0
          /\ \A j \in 1..Len(frequency_bars) :
                k <= Len(frequency_bars[j])
                    => renderer.bars[k] # frequency_bars[j][k]

\* the number of magnitudes of the half spectrum that a spectral frame holds
ValidLen(fft_frame) == Min(Len(fft_frame), FRAME_SIZE \div 2)

RECURSIVE SumFrom(_, _, _)
\* the sum of v[k + 1] over the indices k of lo..hi, from the left, eight
\* at a time while eight are left
SumFrom(v, lo, hi) ==
    IF lo > hi THEN 0
    ELSE IF hi - lo >= 7
    THEN v[lo + 1] + v[lo + 2] + v[lo + 3] + v[lo + 4] + v[lo + 5]
            + v[lo + 6] + v[lo + 7] + v[lo + 8] + SumFrom(v, lo + 8, hi)
    ELSE v[lo + 1] + SumFrom(v, lo + 1, hi)

\* C15: every bar has 0 <= bin_start <= bin_end <= 512 with the clamped
\* floors of its two boundaries over freq_resolution; its raw value is the
\* mean of the magnitudes at the indices of [bin_start, bin_end] below the
\* valid length of the spectral frame, 0.0 when there is none; and only
\* indices inside the spectral frame are read.
C15_BarIsMeanOfItsBins ==
    \A b \in 1..Len(output) :
        LET fft_frame == Transformed[input[1]][1]
            freq_boundaries ==
                generate_log_frequencies(20 * MilliHz, 20000 * MilliHz,
                                         input[3])
            bar   == output[b]
            last  == Min(bar.bin_end, ValidLen(fft_frame) - 1)
        IN  /\ 0 <= bar.bin_start
            /\ bar.bin_start <= bar.bin_end
            /\ bar.bin_end <= 512
            /\ bar.bin_start = Min(BinOf(freq_boundaries[b], input[2]), 512)
            /\ bar.bin_end
                  = Max(Min(BinOf(freq_boundaries[b + 1], input[2]), 512),
                        bar.bin_start)
            /\ bar.raw
                  = IF bar.bin_start > last THEN 0
                    ELSE RoundDiv(SumFrom(fft_frame, bar.bin_start, last),
                                  last - bar.bin_start + 1)
            /\ bar.read = bar.bin_start..last
            /\ \A k \in bar.read : 0 <= k /\ k < Len(fft_frame)

\* all bars of a sounding frame declared at 8000 Hz have been mapped: a
\* bar averages several bins to a value that is not zero, a bar ends at
\* bin 512 without reading it, and a bar at the Nyquist frequency reads
\* nothing and is 0.0
C15_Witness ==
    /\ Len(output) = input[3]
    /\ input[2] = 8000
    /\ \E b \in 1..Len(output) :
          Cardinality(output[b].read) > 1 /\ output[b].raw > 0
    /\ \E b \in 1..Len(output) :
          /\ output[b].bin_start < 512
          /\ output[b].bin_end = 512
          /\ output[b].read # {}
    /\ \E b \in 1..Len(output) :
          /\ output[b].bin_start = 512
          /\ output[b].read = {}
          /\ output[b].raw = 0
          /\ Transformed[input[1]][1][513] # 0

\* the mono sample sequence that the load of every loadable file analyses
MonoSamples ==
    [f \in DOMAIN Segmented |-> mono_samples(f.channels, Samples(f))]

\* the frames cut from samples at the offsets 0, hop, 2 * hop, ... with the
\* hop of a buffer of that length, as long as they fit
FramesAtHop(samples) ==
    LET len == Len(samples)
        hop == hop_size(len)
    IN  [j \in 1..frames_pushed(len) |->
            apply_hann_window(
                SubSeq(samples, (j - 1) * hop + 1,
                       (j - 1) * hop + FRAME_SIZE),
                generate_hann_window(FRAME_SIZE))]

\* C16: after a load the frames are those cut at the hop of the length of
\* the mono sample sequence, and the frames, the spectra and the frame
\* count are those of the load of every file with the same mono sample
\* sequence, whatever sample rate it declares; the bars are also the same
\* when the two files declare the same rate.
C16_TimingIgnoresSampleRate ==
    audio_processed
        => /\ audio_frames = FramesAtHop(MonoSamples[file])
           /\ \A g \in DOMAIN Segmented :
                 MonoSamples[g] = MonoSamples[file]
                     => /\ audio_frames = Segmented[g]
                        /\ fft_results = Transformed[g]
                        /\ total_frames = Len(Segmented[g])
                        /\ g.sample_rate = file.sample_rate
                              => \E n \in DOMAIN Mapped[g] :
                                    frequency_bars = Mapped[g][n]

\* a file declared at 22050 Hz is loaded and has several frames; a file
\* with the same mono samples declared at 44100 Hz has the same frames and
\* other bars
C16_Witness ==
    /\ audio_processed
    /\ file.sample_rate = 22050
    /\ Len(audio_frames) >= 2
    /\ \E g \in DOMAIN Segmented :
          /\ g.sample_rate = 44100
          /\ MonoSamples[g] = MonoSamples[file]
          /\ audio_frames = Segmented[g]
          /\ \A n \in DOMAIN Mapped[g] : frequency_bars # Mapped[g][n]

\* C17: in every reachable state previous_bars has exactly bin_size
\* entries.
C17_SmoothingStateHasBinSize == Len(previous_bars) = bin_size

\* frames of 3 bars are stored, the bar count has been set to 64, and a
\* render has left 64 bars, not all zero, in the smoothing state
C17_Witness ==
    /\ audio_processed
    /\ bin_size = 64
    /\ Len(frequency_bars) > 0
    /\ Len(frequency_bars[1]) = 3
    /\ renderer.frame_count > 0
    /\ previous_bars = renderer.bars
    /\ Len(previous_bars) = 64
    /\ ~AllZero(previous_bars)

\* C18 (as claimed): every vector that get_frequency_bars returns, for an
\* index in range or out of range, has bin_size entries.
C18_ReturnedBarsHaveBinSize ==
    ret.kind = "bars" => Len(ret.value) = bin_size

====
